---- MODULE Spec2Model ----
(***************************************************************************)
(* Grocery-list aggregation of the Help Me Cooking backend:                *)
(* GroceryService.generateGroceryList and its helpers, the recipe lookup   *)
(* it awaits (RecipeService.getRecipeById) and the error middleware that   *)
(* turns a rejected call into an HTTP status.                              *)
(*                                                                         *)
(* A JavaScript string is a sequence of one-character strings, so that     *)
(* toLowerCase, includes and localeCompare are computed.  A JavaScript     *)
(* object is the sequence of its entries in Object.keys order.  A Number   *)
(* that can be fractional is a binary64 value: the bits of its             *)
(* significand, most significant first, and the exponent of the last bit.  *)
(***************************************************************************)
EXTENDS Integers, Sequences, FiniteSets, TLC

\* ------------------------------------------------------------------------
\* Bounds of the model
\* ------------------------------------------------------------------------
MaxIds == 2            \* longest recipeIds array given to one call
MaxServings == 3       \* largest options.servings of the aggregation runs
MaxQtyServings == 11   \* largest options.servings of the scaling sweep
MaxNativeServings == 5 \* largest recipe.servings of the scaling sweep
MaxPrefix == 3         \* longest keyword prefix of the categorisation sweep
MaxUploads == 2        \* detect-ingredients requests in flight together

\* ------------------------------------------------------------------------
\* Strings
\* ------------------------------------------------------------------------
UpperCase == <<"A","B","C","D","E","F","G","H","I","J","K","L","M",
               "N","O","P","Q","R","S","T","U","V","W","X","Y","Z">>
LowerCase == <<"a","b","c","d","e","f","g","h","i","j","k","l","m",
               "n","o","p","q","r","s","t","u","v","w","x","y","z">>

\* String.prototype.toLowerCase, one character
toLowerChar(ch) ==
  IF \E i \in 1..Len(UpperCase) : UpperCase[i] = ch
  THEN LowerCase[CHOOSE i \in 1..Len(UpperCase) : UpperCase[i] = ch]
  ELSE ch

\* String.prototype.toLowerCase
toLowerCase(s) == [i \in 1..Len(s) |-> toLowerChar(s[i])]

\* String.prototype.includes: needle occurs in hay as a substring
includes(hay, needle) ==
  \E i \in 0..(Len(hay) - Len(needle)) :
     SubSeq(hay, i + 1, i + Len(needle)) = needle

\* Array.prototype.includes
arrayIncludes(arr, x) == \E i \in 1..Len(arr) : arr[i] = x

\* this.ingredientCategories as the constructor builds it
CategoryTable ==
  << [category |-> "produce", items |->
        << <<"t","o","m","a","t","o">>,
           <<"o","n","i","o","n">>,
           <<"g","a","r","l","i","c">>,
           <<"b","a","s","i","l">>,
           <<"h","e","r","b","s">>,
           <<"b","e","l","l"," ","p","e","p","p","e","r">>,
           <<"l","e","t","t","u","c","e">>,
           <<"c","u","c","u","m","b","e","r">> >>],
     [category |-> "dairy", items |->
        << <<"c","h","e","e","s","e">>,
           <<"b","u","t","t","e","r">>,
           <<"m","i","l","k">>,
           <<"c","r","e","a","m">>,
           <<"y","o","g","u","r","t">>,
           <<"m","o","z","z","a","r","e","l","l","a">>,
           <<"p","a","r","m","e","s","a","n">> >>],
     [category |-> "protein", items |->
        << <<"e","g","g","s">>,
           <<"c","h","i","c","k","e","n">>,
           <<"b","e","e","f">>,
           <<"f","i","s","h">>,
           <<"t","o","f","u">> >>],
     [category |-> "pantry", items |->
        << <<"s","a","l","t">>,
           <<"p","e","p","p","e","r">>,
           <<"o","l","i","v","e"," ","o","i","l">>,
           <<"f","l","o","u","r">>,
           <<"s","u","g","a","r">>,
           <<"p","a","s","t","a">>,
           <<"r","i","c","e">> >>],
     [category |-> "bread", items |->
        << <<"b","r","e","a","d">>,
           <<"t","o","r","t","i","l","l","a">>,
           <<"b","u","n","s">>,
           <<"r","o","l","l","s">> >>],
     [category |-> "condiments", items |->
        << <<"b","a","l","s","a","m","i","c"," ","v","i","n","e","g","a","r">>,
           <<"s","o","y"," ","s","a","u","c","e">>,
           <<"h","o","t"," ","s","a","u","c","e">>,
           <<"m","u","s","t","a","r","d">> >>] >>

baseQuantities ==
  << [key |-> <<"e","g","g","s">>,
      val |-> [amount |-> 6, unit |-> "pieces", notes |-> "Large eggs"]],
     [key |-> <<"t","o","m","a","t","o">>,
      val |-> [amount |-> 2, unit |-> "pieces", notes |-> "Medium tomatoes"]],
     [key |-> <<"c","h","e","e","s","e">>,
      val |-> [amount |-> 200, unit |-> "g", notes |-> "Block or grated"]],
     [key |-> <<"b","u","t","t","e","r">>,
      val |-> [amount |-> 100, unit |-> "g", notes |-> "Unsalted preferred"]],
     [key |-> <<"b","r","e","a","d">>,
      val |-> [amount |-> 1, unit |-> "loaf", notes |-> "Whole grain or white"]],
     [key |-> <<"o","l","i","v","e"," ","o","i","l">>,
      val |-> [amount |-> 250, unit |-> "ml", notes |-> "Extra virgin"]],
     [key |-> <<"o","n","i","o","n">>,
      val |-> [amount |-> 1, unit |-> "piece", notes |-> "Medium yellow onion"]],
     [key |-> <<"g","a","r","l","i","c">>,
      val |-> [amount |-> 1, unit |-> "head", notes |-> "Fresh bulb"]],
     [key |-> <<"p","a","s","t","a">>,
      val |-> [amount |-> 500, unit |-> "g", notes |-> "Dried pasta"]],
     [key |-> <<"s","a","l","t">>,
      val |-> [amount |-> 1, unit |-> "container", notes |-> "Sea salt or table salt"]],
     [key |-> <<"p","e","p","p","e","r">>,
      val |-> [amount |-> 1, unit |-> "container", notes |-> "Freshly ground"]] >>

averagePrices ==
  << [key |-> <<"e","g","g","s">>, val |-> 350],
     [key |-> <<"t","o","m","a","t","o">>, val |-> 200],
     [key |-> <<"c","h","e","e","s","e">>, val |-> 500],
     [key |-> <<"b","u","t","t","e","r">>, val |-> 400],
     [key |-> <<"b","r","e","a","d">>, val |-> 250],
     [key |-> <<"o","l","i","v","e"," ","o","i","l">>, val |-> 600],
     [key |-> <<"o","n","i","o","n">>, val |-> 150],
     [key |-> <<"g","a","r","l","i","c">>, val |-> 100],
     [key |-> <<"p","a","s","t","a">>, val |-> 150],
     [key |-> <<"s","a","l","t">>, val |-> 100],
     [key |-> <<"p","e","p","p","e","r">>, val |-> 300] >>

\* ------------------------------------------------------------------------
\* binary64 arithmetic of servings / recipe.servings and base.amount * m
\* ------------------------------------------------------------------------
SignificandBits == 53
LimbBits == 16

RECURSIVE Pow2(_)
Pow2(k) == IF k = 0 THEN 1 ELSE 2 * Pow2(k - 1)

RECURSIVE PowMod2(_, _)
\* 2^k modulo m, by squaring
PowMod2(k, m) ==
  IF k = 0 THEN 1 % m
  ELSE IF k % 2 = 0
       THEN LET h == PowMod2(k \div 2, m) IN (h * h) % m
       ELSE (2 * PowMod2(k - 1, m)) % m

RECURSIVE BitLength(_)
BitLength(n) == IF n = 0 THEN 0 ELSE 1 + BitLength(n \div 2)

\* the w low binary digits of a natural number, most significant first
PadBits(n, w) == [j \in 1..w |-> (n \div Pow2(w - j)) % 2]

\* the binary digits of a natural number, most significant first
NatBits(n) == PadBits(n, BitLength(n))

RECURSIVE BitsNat(_)
\* the number a sequence of at most 30 binary digits stands for
BitsNat(bits) ==
  IF Len(bits) = 0 THEN 0
  ELSE 2 * BitsNat(SubSeq(bits, 1, Len(bits) - 1)) + bits[Len(bits)]

\* bits + 1; one digit longer when every digit was 1
IncBits(bits) ==
  IF \A i \in 1..Len(bits) : bits[i] = 1
  THEN [i \in 1..(Len(bits) + 1) |-> IF i = 1 THEN 1 ELSE 0]
  ELSE LET z == CHOOSE i \in 1..Len(bits) :
                   bits[i] = 0 /\ \A j \in (i + 1)..Len(bits) : bits[j] = 1
       IN [i \in 1..Len(bits) |-> IF i < z THEN bits[i] ELSE IF i = z THEN 1 ELSE 0]

\* round-to-nearest, ties-to-even of bits * 2^exp (+ a nonzero tail below
\* the last bit when sticky) to a significand of SignificandBits digits
RoundToDouble(bits, exp, sticky) ==
  IF Len(bits) <= SignificandBits
  THEN [bits |-> bits, exp |-> exp]
  ELSE LET kept == SubSeq(bits, 1, SignificandBits)
           guard == bits[SignificandBits + 1]
           rest == sticky \/ \E i \in (SignificandBits + 2)..Len(bits) : bits[i] = 1
           up == guard = 1 /\ (rest \/ kept[SignificandBits] = 1)
           r == IF up THEN IncBits(kept) ELSE kept
           e == exp + (Len(bits) - SignificandBits)
       IN IF Len(r) > SignificandBits
          THEN [bits |-> SubSeq(r, 1, SignificandBits), exp |-> e + 1]
          ELSE [bits |-> r, exp |-> e]

\* a small integer literal as a binary64 value (exact)
DoubleOfNat(n) == RoundToDouble(NatBits(n), 0, FALSE)

RECURSIVE FloorLog2(_, _)
\* the e with 2^e <= s/n < 2^(e+1), s and n positive
FloorLog2(s, n) ==
  IF s >= 2 * n THEN FloorLog2(s, 2 * n) + 1
  ELSE IF s < n THEN FloorLog2(2 * s, n) - 1
  ELSE 0

\* the first k binary digits of a/b, for b <= a < 2b: digit i is
\* floor(a * 2^(i-1) / b) modulo 2
DivBits(a, b, k) ==
  [i \in 1..k |-> IF (a * PowMod2(i - 1, 2 * b)) % (2 * b) >= b THEN 1 ELSE 0]

\* whether a/b has a nonzero digit after its first k digits
DivSticky(a, b, k) == (a * PowMod2(k - 1, b)) % b # 0

\* the Number s / n of two positive integers (each below 2^10)
DoubleDiv(s, n) ==
  LET e == FloorLog2(s, n)
      a == IF e < 0 THEN s * Pow2(0 - e) ELSE s
      b == IF e > 0 THEN n * Pow2(e) ELSE n
      k == SignificandBits + 2
  IN RoundToDouble(DivBits(a, b, k), e - (k - 1), DivSticky(a, b, k))

RECURSIVE MulLimbs(_, _, _, _)
\* digits of bits * m: long multiplication, LimbBits digits at a time from
\* the last digit; i limbs are done
MulLimbs(bits, m, i, carry) ==
  IF LimbBits * i >= Len(bits) THEN NatBits(carry)
  ELSE LET hi == Len(bits) - LimbBits * i
           lo == IF hi > LimbBits THEN hi - LimbBits + 1 ELSE 1
           w == hi - lo + 1
           d == BitsNat(SubSeq(bits, lo, hi)) * m + carry
       IN MulLimbs(bits, m, i + 1, d \div Pow2(w)) \o PadBits(d % Pow2(w), w)

\* the Number m * x of a positive integer m (below 2^10) and a positive
\* binary64 x
DoubleMul(m, x) == RoundToDouble(MulLimbs(x.bits, m, 0, 0), x.exp, FALSE)

\* a variant that rounds down, as Math.floor does
MathFloor(x) ==
  IF x.exp >= 0 THEN BitsNat(x.bits) * Pow2(x.exp)
  ELSE LET k == Len(x.bits) + x.exp
       IN IF k <= 0 THEN 0 ELSE BitsNat(SubSeq(x.bits, 1, k))

\* Math.ceil of a positive binary64 value below 2^30
MathCeil(x) ==
  IF x.exp >= 0 THEN BitsNat(x.bits) * Pow2(x.exp)
  ELSE LET k == Len(x.bits) + x.exp
       IN IF k <= 0 THEN 1
          ELSE BitsNat(SubSeq(x.bits, 1, k))
               + (IF \E i \in (k + 1)..Len(x.bits) : x.bits[i] = 1 THEN 1 ELSE 0)

\* ceil(a / b) in exact arithmetic
CeilDiv(a, b) == (a + b - 1) \div b


\* ------------------------------------------------------------------------
\* Helpers of GroceryService
\* ------------------------------------------------------------------------
\* key in obj, for an object given as the sequence of its [key, val] entries
hasKey(obj, key) == \E i \in 1..Len(obj) : obj[i].key = key

\* obj[key] of a key the object has
get(obj, key) == obj[CHOOSE i \in 1..Len(obj) : obj[i].key = key].val

\* a variant that only looks for the keyword inside the name
categorizeKeywordInside(ingredient, categories) ==
  LET lowerIngredient == toLowerCase(ingredient)
      hit(i) == \E j \in 1..Len(categories[i].items) :
                   includes(lowerIngredient, categories[i].items[j])
  IN IF \E i \in 1..Len(categories) : hit(i)
     THEN categories[CHOOSE i \in 1..Len(categories) :
                        hit(i) /\ \A k \in 1..(i - 1) : ~hit(k)].category
     ELSE "other"

\* categorizeIngredient: the first category, in Object.entries order, one
\* of whose keywords contains or is contained in the lowercased name
categorizeIngredient(ingredient, categories) ==
  LET lowerIngredient == toLowerCase(ingredient)
      hit(i) == \E j \in 1..Len(categories[i].items) :
                   \/ includes(lowerIngredient, categories[i].items[j])
                   \/ includes(categories[i].items[j], lowerIngredient)
  IN IF \E i \in 1..Len(categories) : hit(i)
     THEN categories[CHOOSE i \in 1..Len(categories) :
                        hit(i) /\ \A k \in 1..(i - 1) : ~hit(k)].category
     ELSE "other"

defaultQuantity == [amount |-> 1, unit |-> "item", notes |-> "Check recipe for specific amount"]

\* a variant that looks the name up as the recipe writes it
calculateIngredientQuantityAsWritten(ingredient, multiplier) ==
  LET base == IF hasKey(baseQuantities, ingredient)
              THEN get(baseQuantities, ingredient) ELSE defaultQuantity
  IN [amount |-> MathCeil(DoubleMul(base.amount, multiplier)),
      unit |-> base.unit,
      notes |-> base.notes]

\* calculateIngredientQuantity(ingredient, multiplier)
calculateIngredientQuantity(ingredient, multiplier) ==
  LET key == toLowerCase(ingredient)
      base == IF hasKey(baseQuantities, key)
              THEN get(baseQuantities, key) ELSE defaultQuantity
  IN [amount |-> MathCeil(DoubleMul(base.amount, multiplier)),
      unit |-> base.unit,
      notes |-> base.notes]

\* servings ? servings / recipe.servings : 1   (servings = 0 stands for null)
servingMultiplier(servings, recipeServings) ==
  IF servings # 0 THEN DoubleDiv(servings, recipeServings) ELSE DoubleOfNat(1)

DefaultPrice == 250

\* estimateTotalCost(ingredients), in hundredths of a currency unit: every
\* price is a multiple of 0.50, so the sum and Math.round(total * 100) are
\* exact
RECURSIVE sumPrices(_, _)
sumPrices(ingredients, i) ==
  IF i = 0 THEN 0
  ELSE LET key == toLowerCase(ingredients[i].key)
       IN sumPrices(ingredients, i - 1)
          + (IF hasKey(averagePrices, key)
             THEN get(averagePrices, key) ELSE DefaultPrice)

RECURSIVE sumPricesAsWritten(_, _)
sumPricesAsWritten(ingredients, i) ==
  IF i = 0 THEN 0
  ELSE sumPricesAsWritten(ingredients, i - 1)
       + (IF hasKey(averagePrices, ingredients[i].key)
          THEN get(averagePrices, ingredients[i].key) ELSE DefaultPrice)

\* a variant that looks the name up as the recipe writes it
estimateTotalCostAsWritten(ingredients) ==
  sumPricesAsWritten(ingredients, Len(ingredients))

estimateTotalCost(ingredients) == sumPrices(ingredients, Len(ingredients))

\* rank of a character at the primary level of the default collation:
\* the space before the letters, letters without regard to case
charRank(ch) ==
  LET l == toLowerChar(ch)
  IN IF \E i \in 1..Len(LowerCase) : LowerCase[i] = l
     THEN CHOOSE i \in 1..Len(LowerCase) : LowerCase[i] = l
     ELSE 0

isUpper(ch) == \E i \in 1..Len(UpperCase) : UpperCase[i] = ch

\* a variant that orders the other way round
localeLessDescending(a, b) ==
  LET n == IF Len(a) < Len(b) THEN Len(a) ELSE Len(b)
      pdiff == {i \in 1..n : charRank(a[i]) # charRank(b[i])}
      cdiff == {i \in 1..n : a[i] # b[i]}
      first(S) == CHOOSE i \in S : \A j \in S : i <= j
  IN IF pdiff # {} THEN charRank(a[first(pdiff)]) > charRank(b[first(pdiff)])
     ELSE IF Len(a) # Len(b) THEN Len(a) > Len(b)
     ELSE cdiff # {} /\ isUpper(a[first(cdiff)])

\* a.localeCompare(b) < 0: the first primary difference decides, a proper
\* prefix sorts first, and between strings equal but for case the first
\* case difference decides with the lowercase letter first
localeLess(a, b) ==
  LET n == IF Len(a) < Len(b) THEN Len(a) ELSE Len(b)
      pdiff == {i \in 1..n : charRank(a[i]) # charRank(b[i])}
      cdiff == {i \in 1..n : a[i] # b[i]}
      first(S) == CHOOSE i \in S : \A j \in S : i <= j
  IN IF pdiff # {} THEN charRank(a[first(pdiff)]) < charRank(b[first(pdiff)])
     ELSE IF Len(a) # Len(b) THEN Len(a) < Len(b)
     ELSE cdiff # {} /\ isUpper(b[first(cdiff)])

RECURSIVE insertSorted(_, _)
\* e placed after every element of the sorted arr that is not greater
insertSorted(arr, e) ==
  IF arr = <<>> THEN <<e>>
  ELSE IF localeLess(e.name, arr[Len(arr)].name)
       THEN insertSorted(SubSeq(arr, 1, Len(arr) - 1), e) \o <<arr[Len(arr)]>>
       ELSE arr \o <<e>>

RECURSIVE sortByName(_)
\* arr.sort((a, b) => a.name.localeCompare(b.name)), a stable sort
sortByName(arr) ==
  IF arr = <<>> THEN <<>>
  ELSE insertSorted(sortByName(SubSeq(arr, 1, Len(arr) - 1)), arr[Len(arr)])

\* a variant whose totalRecipes counts the distinct identifiers
newGroceryListDistinctIds(recipeIds) ==
  [recipes |-> <<>>,
   ingredients |-> <<>>,
   categorizedIngredients |-> <<>>,
   summary |-> [totalRecipes |-> Cardinality({recipeIds[i] : i \in 1..Len(recipeIds)}),
                totalIngredients |-> 0,
                estimatedCost |-> 0,
                estimatedTime |-> 0]]

\* the object literal of generateGroceryList
newGroceryList(recipeIds) ==
  [recipes |-> <<>>,
   ingredients |-> <<>>,
   categorizedIngredients |-> <<>>,
   summary |-> [totalRecipes |-> Len(recipeIds),
                totalIngredients |-> 0,
                estimatedCost |-> 0,
                estimatedTime |-> 0]]

\* the entry built for an ingredient that has none: its quantity is scaled
\* by the serving multiplier of the recipe at hand
newEntry(ingredient, recipe, options, categories) ==
  LET quantity == calculateIngredientQuantity(ingredient,
                     servingMultiplier(options.servings, recipe.servings))
  IN [name |-> ingredient,
      quantity |-> quantity.amount,
      unit |-> quantity.unit,
      category |-> categorizeIngredient(ingredient, categories),
      recipes |-> <<>>,
      notes |-> quantity.notes]

\* a variant that records only the recipe that created the entry
pushRecipeOfEntry(ingredients, ingredient, recipe) ==
  [i \in 1..Len(ingredients) |->
     IF ingredients[i].key = ingredient /\ ingredients[i].val.recipes = <<>>
     THEN [ingredients[i] EXCEPT !.val.recipes =
             Append(@, [recipeId |-> recipe.id, recipeName |-> recipe.name])]
     ELSE ingredients[i]]

\* groceryList.ingredients[ingredient].recipes.push({recipeId, recipeName})
pushRecipe(ingredients, ingredient, recipe) ==
  [i \in 1..Len(ingredients) |->
     IF ingredients[i].key = ingredient
     THEN [ingredients[i] EXCEPT !.val.recipes =
             Append(@, [recipeId |-> recipe.id, recipeName |-> recipe.name])]
     ELSE ingredients[i]]

\* a variant of the inner loop that rebuilds the entry of an ingredient
\* from every recipe that lists it
addIngredientLastWins(ingredients, ingredient, recipe, options, categories) ==
  IF arrayIncludes(options.excludeIngredients, toLowerCase(ingredient))
  THEN ingredients
  ELSE LET entry == newEntry(ingredient, recipe, options, categories)
           present ==
             IF hasKey(ingredients, ingredient)
             THEN [i \in 1..Len(ingredients) |->
                     IF ingredients[i].key = ingredient
                     THEN [ingredients[i] EXCEPT
                             !.val = [entry EXCEPT !.recipes = ingredients[i].val.recipes]]
                     ELSE ingredients[i]]
             ELSE Append(ingredients, [key |-> ingredient, val |-> entry])
       IN pushRecipe(present, ingredient, recipe)

\* one pass of the inner loop: the ingredient is skipped when excluded,
\* gets an entry when it has none, and the recipe is pushed to its entry
addIngredient(ingredients, ingredient, recipe, options, categories) ==
  IF arrayIncludes(options.excludeIngredients, toLowerCase(ingredient))
  THEN ingredients
  ELSE LET present ==
             IF hasKey(ingredients, ingredient)
             THEN ingredients
             ELSE Append(ingredients,
                         [key |-> ingredient,
                          val |-> newEntry(ingredient, recipe, options, categories)])
       IN pushRecipe(present, ingredient, recipe)

RECURSIVE addIngredients(_, _, _, _, _)
\* the inner loop over the first n ingredients of the recipe
addIngredients(ingredients, recipe, n, options, categories) ==
  IF n = 0 THEN ingredients
  ELSE addIngredient(addIngredients(ingredients, recipe, n - 1, options, categories),
                     recipe.ingredients[n], recipe, options, categories)

\* a variant whose estimatedTime is the longest cookingTime so far
processRecipeLongestTime(list, recipe, options, categories) ==
  [list EXCEPT
     !.recipes = Append(@, [id |-> recipe.id,
                            name |-> recipe.name,
                            servings |-> IF options.servings # 0
                                         THEN options.servings ELSE recipe.servings,
                            cookingTime |-> recipe.cookingTime]),
     !.ingredients = addIngredients(@, recipe, Len(recipe.ingredients), options, categories),
     !.summary.estimatedTime = IF @ > recipe.cookingTime THEN @ ELSE recipe.cookingTime]

\* the body of the outer loop after the lookup has answered
processRecipe(list, recipe, options, categories) ==
  [list EXCEPT
     !.recipes = Append(@, [id |-> recipe.id,
                            name |-> recipe.name,
                            servings |-> IF options.servings # 0
                                         THEN options.servings ELSE recipe.servings,
                            cookingTime |-> recipe.cookingTime]),
     !.ingredients = addIngredients(@, recipe, Len(recipe.ingredients), options, categories),
     !.summary.estimatedTime = @ + recipe.cookingTime]

\* a variant that starts the list of the category anew at every ingredient
pushCategorizedOverwrite(categorized, entry) ==
  IF hasKey(categorized, entry.category)
  THEN [i \in 1..Len(categorized) |->
          IF categorized[i].key = entry.category
          THEN [categorized[i] EXCEPT !.val = <<entry>>]
          ELSE categorized[i]]
  ELSE Append(categorized, [key |-> entry.category, val |-> <<entry>>])

\* categorizedIngredients[category].push(ingredientData), the list being
\* created at the first ingredient of the category
pushCategorized(categorized, entry) ==
  IF hasKey(categorized, entry.category)
  THEN [i \in 1..Len(categorized) |->
          IF categorized[i].key = entry.category
          THEN [categorized[i] EXCEPT !.val = Append(@, entry)]
          ELSE categorized[i]]
  ELSE Append(categorized, [key |-> entry.category, val |-> <<entry>>])

RECURSIVE organize(_, _)
\* the grouping loop over the first n entries of ingredients
organize(ingredients, n) ==
  IF n = 0 THEN <<>>
  ELSE pushCategorized(organize(ingredients, n - 1), ingredients[n].val)

\* a variant whose totalIngredients counts every occurrence of an
\* ingredient in a recipe
finishCountingOccurrences(list) ==
  LET grouped == organize(list.ingredients, Len(list.ingredients))
  IN [list EXCEPT
        !.categorizedIngredients =
           [i \in 1..Len(grouped) |->
              [grouped[i] EXCEPT !.val = sortByName(@)]],
        !.summary.totalIngredients =
           Cardinality(UNION {{<<i, j>> : j \in 1..Len(list.ingredients[i].val.recipes)} :
                              i \in 1..Len(list.ingredients)}),
        !.summary.estimatedCost = estimateTotalCost(list.ingredients)]

\* what follows the outer loop: grouping, sorting and the summary
finishGroceryList(list) ==
  LET grouped == organize(list.ingredients, Len(list.ingredients))
  IN [list EXCEPT
        !.categorizedIngredients =
           [i \in 1..Len(grouped) |->
              [grouped[i] EXCEPT !.val = sortByName(@)]],
        !.summary.totalIngredients = Len(list.ingredients),
        !.summary.estimatedCost = estimateTotalCost(list.ingredients)]


\* ------------------------------------------------------------------------
\* Errors, the recipe lookup and the error middleware
\* ------------------------------------------------------------------------
\* new AppError(message, statusCode); it has no code and no response
AppError(message, statusCode) ==
  [name |-> "Error",
   message |-> message,
   statusCode |-> statusCode,
   status |-> IF statusCode \div 100 = 4 THEN "fail" ELSE "error",
   isOperational |-> TRUE,
   code |-> "",
   responseStatus |-> 0]

\* what the body of getRecipeById's try block can throw: the answer of the
\* generative model is not JSON, or the model cannot be reached
SyntaxError ==
  [name |-> "SyntaxError", message |-> "Unexpected token", statusCode |-> 0,
   status |-> "", isOperational |-> FALSE, code |-> "", responseStatus |-> 0]
NetworkErrors ==
  {[name |-> "Error", message |-> "connect", statusCode |-> 0,
    status |-> "", isOperational |-> FALSE, code |-> code, responseStatus |-> 0] :
     code \in {"ECONNREFUSED", "ENOTFOUND"}}

\* a variant whose message does not say which identifier failed
getRecipeByIdCatchAnonymous(recipeId, thrown) ==
  AppError("Recipe not found", 404)

\* getRecipeById(recipeId) when its try block throws: the catch clause
\* replaces whatever was thrown
getRecipeByIdCatch(recipeId, thrown) ==
  AppError("Recipe with ID " \o ToString(recipeId) \o " not found", 404)

\* errorMiddleware(err, req, res, next): the status and message it sends
errorMiddleware(err) ==
  LET e1 == IF err.name = "CastError"
            THEN AppError("Resource not found", 404) ELSE err
      e2 == IF err.code = "11000"
            THEN AppError("Duplicate field value entered", 400) ELSE e1
      e3 == IF err.name = "ValidationError"
            THEN AppError("Validation failed", 400) ELSE e2
      e4 == IF err.responseStatus = 403
            THEN AppError("YouTube API quota exceeded or invalid API key", 403)
            ELSE e3
      e5 == IF err.code \in {"ECONNREFUSED", "ENOTFOUND"}
            THEN AppError("External service unavailable", 503) ELSE e4
  IN [success |-> FALSE,
      statusCode |-> IF e5.statusCode # 0 THEN e5.statusCode ELSE 500,
      message |-> IF e5.message # "" THEN e5.message
                  ELSE "Internal Server Error"]

\* what a call throws before the service does anything: the second
\* argument of generateGroceryList is null, or the member called on the
\* service is undefined
TypeError(message) ==
  [name |-> "TypeError", message |-> message, statusCode |-> 0,
   status |-> "", isOperational |-> FALSE, code |-> "", responseStatus |-> 0]

\* createErrorResponse(message, statusCode) as res.status(statusCode).json
\* sends it
createErrorResponse(message, statusCode) ==
  [success |-> FALSE, statusCode |-> statusCode, message |-> message]

\* res.json({success: true, data, message})
resJson(data, message) ==
  [success |-> TRUE, statusCode |-> 200, message |-> message, data |-> data]

\* ------------------------------------------------------------------------
\* Request parameters
\* ------------------------------------------------------------------------
Digits == <<"0", "1", "2", "3", "4", "5", "6", "7", "8", "9">>

isDigit(ch) == \E d \in 1..Len(Digits) : Digits[d] = ch

digitValue(ch) == (CHOOSE d \in 1..Len(Digits) : Digits[d] = ch) - 1

NaN == [nan |-> TRUE, value |-> 0]

RECURSIVE decimal(_, _, _)
\* the number the digits s[from..to] write in base ten
decimal(s, from, to) ==
  IF to < from THEN 0 ELSE 10 * decimal(s, from, to - 1) + digitValue(s[to])

\* parseInt(s) of a string: leading blanks are skipped, a sign is taken,
\* then the longest run of digits; NaN when there is no digit. (No string
\* of the model starts with 0x, so the radix is ten.)
parseInt(s) ==
  LET start == CHOOSE i \in 1..(Len(s) + 1) :
                 /\ \A k \in 1..(i - 1) : s[k] = " "
                 /\ i = Len(s) + 1 \/ s[i] # " "
      signed == start <= Len(s) /\ s[start] \in {"+", "-"}
      first == IF signed THEN start + 1 ELSE start
      stop == CHOOSE j \in first..(Len(s) + 1) :
                 /\ \A k \in first..(j - 1) : isDigit(s[k])
                 /\ j = Len(s) + 1 \/ ~isDigit(s[j])
      magnitude == decimal(s, first, stop - 1)
  IN IF stop = first THEN NaN
     ELSE [nan |-> FALSE,
           value |-> IF signed /\ s[start] = "-" THEN 0 - magnitude ELSE magnitude]

\* the members of the exported GroceryService instance
ServiceMethods ==
  {"generateGroceryList", "categorizeIngredient", "calculateIngredientQuantity",
   "estimateTotalCost", "getShoppingListFormats", "createSimpleList",
   "createChecklist"}

\* the first argument of generateGroceryList as a caller passes it
IntegerArg(n) == [isArray |-> FALSE, value |-> n]
ArrayArg(ids) == [isArray |-> TRUE, value |-> ids]

\* a variant that takes what is not an array for no identifier at all
asArrayOrNone(recipeIdsArg) ==
  IF ~recipeIdsArg.isArray THEN <<>> ELSE recipeIdsArg.value

\* if (!Array.isArray(recipeIds)) recipeIds = [recipeIds]
asArray(recipeIdsArg) ==
  IF ~recipeIdsArg.isArray THEN <<recipeIdsArg.value>> ELSE recipeIdsArg.value

\* the second argument of generateGroceryList as a caller passes it
NullArg == [kind |-> "null", value |-> 0, servings |-> 0, excludeIngredients |-> <<>>]
NumberArg(n) == [kind |-> "number", value |-> n, servings |-> 0, excludeIngredients |-> <<>>]
ObjectArg(opts) ==
  [kind |-> "object", value |-> 0, servings |-> opts.servings,
   excludeIngredients |-> opts.excludeIngredients]

\* const { servings = null, excludeIngredients = [] } = options, for an
\* argument that is not null: a number has neither property, so both
\* defaults apply
destructure(arg) ==
  IF arg.kind = "object"
  THEN [servings |-> arg.servings, excludeIngredients |-> arg.excludeIngredients]
  ELSE [servings |-> 0, excludeIngredients |-> <<>>]

\* ------------------------------------------------------------------------
\* Shopping list formats
\* ------------------------------------------------------------------------
RECURSIVE decimalString(_)
\* String(n) of a whole number that is not negative
decimalString(n) ==
  IF n < 10 THEN <<Digits[n + 1]>>
  ELSE decimalString(n \div 10) \o <<Digits[(n % 10) + 1]>>

\* the characters of the unit strings of the quantity table
unitChars(unit) ==
  CASE unit = "pieces" -> <<"p","i","e","c","e","s">>
    [] unit = "g" -> <<"g">>
    [] unit = "loaf" -> <<"l","o","a","f">>
    [] unit = "ml" -> <<"m","l">>
    [] unit = "piece" -> <<"p","i","e","c","e">>
    [] unit = "head" -> <<"h","e","a","d">>
    [] unit = "container" -> <<"c","o","n","t","a","i","n","e","r">>
    [] unit = "item" -> <<"i","t","e","m">>

\* `${ingredient.quantity} ${ingredient.unit} ${ingredient.name}`
quantityUnitName(ingredient) ==
  decimalString(ingredient.quantity) \o <<" ">> \o unitChars(ingredient.unit)
    \o <<" ">> \o ingredient.name

\* a variant that lists the ingredients category by category
createSimpleListByCategory(groceryList) ==
  LET RECURSIVE flat(_)
      flat(n) == IF n = 0 THEN <<>>
                 ELSE flat(n - 1) \o groceryList.categorizedIngredients[n].val
      all == flat(Len(groceryList.categorizedIngredients))
  IN [i \in 1..Len(all) |-> quantityUnitName(all[i])]

\* createSimpleList(groceryList): Object.values of ingredients, mapped
createSimpleList(groceryList) ==
  [i \in 1..Len(groceryList.ingredients) |->
     quantityUnitName(groceryList.ingredients[i].val)]

\* category.charAt(0).toUpperCase() + category.slice(1)
capitalize(category) ==
  CASE category = "produce" -> "Produce"
    [] category = "dairy" -> "Dairy"
    [] category = "protein" -> "Protein"
    [] category = "pantry" -> "Pantry"
    [] category = "bread" -> "Bread"
    [] category = "condiments" -> "Condiments"
    [] category = "other" -> "Other"

\* createChecklist(groceryList): Object.entries of categorizedIngredients,
\* mapped
createChecklist(groceryList) ==
  [i \in 1..Len(groceryList.categorizedIngredients) |->
     [category |-> capitalize(groceryList.categorizedIngredients[i].key),
      items |-> [j \in 1..Len(groceryList.categorizedIngredients[i].val) |->
                   [name |-> quantityUnitName(groceryList.categorizedIngredients[i].val[j]),
                    checked |-> FALSE,
                    notes |-> groceryList.categorizedIngredients[i].val[j].notes]]]]

\* ------------------------------------------------------------------------
\* Detection of ingredients in an uploaded image
\* ------------------------------------------------------------------------
Uploads == 1..MaxUploads

\* req.file?.path: the empty string stands for undefined
NoPath == ""

\* a request that has not arrived
NoDetection ==
  [pc |-> "idle", imagePath |-> NoPath, ingredients |-> <<>>,
   responses |-> <<>>, unlinks |-> <<>>, callbacks |-> 0]

RECURSIVE split(_)
\* resultText.split("\n") with the newline written as the character "/"
split(text) ==
  IF \A i \in 1..Len(text) : text[i] # "/" THEN <<text>>
  ELSE LET at == CHOOSE i \in 1..Len(text) :
                   text[i] = "/" /\ \A k \in 1..(i - 1) : text[k] # "/"
       IN <<SubSeq(text, 1, at - 1)>> \o split(SubSeq(text, at + 1, Len(text)))

\* the length of the longest prefix of s whose characters are all in S
prefixIn(s, S) ==
  CHOOSE n \in 0..Len(s) :
    /\ \A k \in 1..n : s[k] \in S
    /\ n = Len(s) \/ s[n + 1] \notin S

\* String.prototype.trim for blanks
trim(s) ==
  LET from == prefixIn(s, {" "}) + 1
      to == CHOOSE n \in 0..Len(s) :
              /\ \A k \in (n + 1)..Len(s) : s[k] = " "
              /\ n = 0 \/ s[n] # " "
  IN SubSeq(s, from, to)

\* the character U+2022, written "#"
Bullet == "#"

\* item.replace(/^[-*#\d.]*\s*/, "").trim(), # being the bullet
stripMarker(item) ==
  LET markers == prefixIn(item, {"-", "*", Bullet, "."} \cup {Digits[d] : d \in 1..Len(Digits)})
      rest == SubSeq(item, markers + 1, Len(item))
  IN trim(SubSeq(rest, prefixIn(rest, {" "}) + 1, Len(rest)))

\* resultText.split("\n").map(...).filter(Boolean)
ingredientsOf(resultText) ==
  LET lines == split(resultText)
  IN SelectSeq([i \in 1..Len(lines) |-> stripMarker(lines[i])], LAMBDA item : item # <<>>)

\* a variant of the finally clause that leaves the file
finallyClauseLeavesFile(d) == d

\* the finally clause: fs.unlink(imagePath, callback) when a file came
finallyClause(d) ==
  IF d.imagePath # NoPath THEN [d EXCEPT !.unlinks = Append(@, d.imagePath)] ELSE d

\* res.status(statusCode).json(body), then the finally clause
respond(d, statusCode, body) ==
  finallyClause([d EXCEPT !.pc = "finished",
                          !.responses = Append(@, [statusCode |-> statusCode, body |-> body])])

\* ------------------------------------------------------------------------
\* Invocations of generateGroceryList
\* ------------------------------------------------------------------------
Calls == {"A", "B"}

NoList == [none |-> "list"]
NoError == [none |-> "error"]
NoResponse == [none |-> "response"]
NoRequest == [handler |-> "none"]
NoArgument == [none |-> "argument"]
NoFormats == [none |-> "formats"]

\* the caller of an invocation made by getShoppingListFormats
FormatsCaller == [handler |-> "getShoppingListFormats"]

\* a variant in which every invocation works on one list of the service
sharedList(c) == "A"

\* the object the const groceryList of invocation c denotes: built by the
\* object literal of that invocation, so one per invocation
listOf(c) == c

RECURSIVE ascending(_)
\* the elements of a set of numbers, smallest first
ascending(S) ==
  IF S = {} THEN <<>>
  ELSE LET m == CHOOSE x \in S : \A y \in S : x <= y
       IN <<m>> \o ascending(S \ {m})

\* a variant that starts every lookup up front, as Promise.all would
allAtOnce(recipeIds, completed) ==
  IF completed = 0 THEN 1..Len(recipeIds) ELSE {}

\* positions of recipeIds whose lookup the loop starts once `completed`
\* lookups have answered: the await keeps the next one back
lookupsToStart(recipeIds, completed) ==
  IF completed < Len(recipeIds) THEN {completed + 1} ELSE {}

\* a variant that looks a failed position up a second time
retryOnce(issuedSoFar, p) ==
  IF Len(SelectSeq(issuedSoFar, LAMBDA q : q = p)) < 2 THEN {p} ELSE {}

\* positions looked up again after the lookup at position p has failed:
\* the loop has no catch, so none
lookupsAfterFailure(issuedSoFar, p) == {}

\* a variant that swallows the rejection and returns what it has
returnsPartial(list, err) ==
  [pc |-> "done", result |-> finishGroceryList(list), error |-> NoError]

\* how the invocation ends when a lookup rejects with err while `list` is
\* under construction: the rejection leaves the function, the list is lost
rejected(list, err) ==
  [pc |-> "failed", result |-> NoList, error |-> err]

VARIABLES
  ingredientCategories, \* this.ingredientCategories of the service
  pc,             \* per invocation: "idle", "awaiting", "done", "failed"
  recipeIds,      \* per invocation: the recipeIds array
  options,        \* per invocation: [servings, excludeIngredients]
  groceryList,    \* the groceryList objects under construction
  outstanding,    \* per invocation: positions whose lookup is in flight
  issued,         \* per invocation: positions looked up, in order
  answers,        \* per invocation: the recipes the lookups returned
  result,         \* per invocation: the value the promise resolved with
  error,          \* per invocation: the error the promise rejected with
  cause,          \* per invocation: what getRecipeById's try block threw
  failedAt,       \* per invocation: position of the first failed lookup
  response,       \* per invocation: what the error middleware sent
  overlapped,     \* per invocation: a step ran while another was awaiting
  request,        \* per invocation: the HTTP request it serves, if any
  argument,       \* per invocation: the first argument as the caller passed it
  formats,        \* per invocation: what getShoppingListFormats returned
  detection       \* per detect-ingredients request: its position and effects

vars == <<ingredientCategories, pc, recipeIds, options, groceryList,
          outstanding, issued, answers, result, error, cause, failedAt,
          response, overlapped, request, argument, formats, detection>>

Init ==
  /\ ingredientCategories = CategoryTable
  /\ pc = [c \in Calls |-> "idle"]
  /\ recipeIds = [c \in Calls |-> <<>>]
  /\ options = [c \in Calls |-> [servings |-> 0, excludeIngredients |-> <<>>]]
  /\ groceryList = [c \in Calls |-> NoList]
  /\ outstanding = [c \in Calls |-> {}]
  /\ issued = [c \in Calls |-> <<>>]
  /\ answers = [c \in Calls |-> <<>>]
  /\ result = [c \in Calls |-> NoList]
  /\ error = [c \in Calls |-> NoError]
  /\ cause = [c \in Calls |-> NoError]
  /\ failedAt = [c \in Calls |-> 0]
  /\ response = [c \in Calls |-> NoResponse]
  /\ overlapped = [c \in Calls |-> FALSE]
  /\ request = [c \in Calls |-> NoRequest]
  /\ argument = [c \in Calls |-> NoArgument]
  /\ formats = [c \in Calls |-> NoFormats]
  /\ detection = [r \in Uploads |-> NoDetection]

othersAwaiting(c) == \E d \in Calls \ {c} : pc[d] = "awaiting"

\* generateGroceryList(ids, opts) up to its first await: the list is
\* built and the first lookup started; with no identifier the loop is
\* skipped and the function runs to its return
SuccessMessage == "Grocery list generated successfully"

\* the caller's catch clause hands err to the error middleware
Throw(c, req, err) ==
  /\ pc' = [pc EXCEPT ![c] = "failed"]
  /\ error' = [error EXCEPT ![c] = err]
  /\ response' = [response EXCEPT ![c] = errorMiddleware(err)]
  /\ request' = [request EXCEPT ![c] = req]
  /\ UNCHANGED <<ingredientCategories, recipeIds, options, groceryList,
                 outstanding, issued, answers, result, cause, failedAt, overlapped,
                 argument, formats, detection>>

\* generateGroceryList(recipeIdsArg, arg) up to its first await, called
\* on behalf of request req: destructuring null throws; otherwise the
\* identifiers are made an array, the list literal is built and the first
\* lookup started, or, for no identifier, the list is finished and
\* returned
generateGroceryList(c, recipeIdsArg, arg, req) ==
  IF arg.kind = "null"
  THEN Throw(c, req,
             TypeError("Cannot destructure property 'servings' of 'options' as it is null."))
  ELSE
  LET ids == asArray(recipeIdsArg)
      start == lookupsToStart(ids, 0)
      list == newGroceryList(ids)
  IN /\ argument' = [argument EXCEPT ![c] = recipeIdsArg]
     /\ recipeIds' = [recipeIds EXCEPT ![c] = ids]
     /\ options' = [options EXCEPT ![c] = destructure(arg)]
     /\ request' = [request EXCEPT ![c] = req]
     /\ outstanding' = [outstanding EXCEPT ![c] = start]
     /\ issued' = [issued EXCEPT ![c] = ascending(start)]
     /\ IF start = {}
        THEN /\ pc' = [pc EXCEPT ![c] = "done"]
             /\ groceryList' = [groceryList EXCEPT ![listOf(c)] = finishGroceryList(list)]
             /\ result' = [result EXCEPT ![c] = finishGroceryList(list)]
             /\ response' = [response EXCEPT ![c] =
                               IF req \in {NoRequest, FormatsCaller} THEN @
                               ELSE resJson(finishGroceryList(list), SuccessMessage)]
        ELSE /\ pc' = [pc EXCEPT ![c] = "awaiting"]
             /\ groceryList' = [groceryList EXCEPT ![listOf(c)] = list]
             /\ UNCHANGED <<result, response>>
     /\ overlapped' = [overlapped EXCEPT ![c] = othersAwaiting(c)]
     /\ UNCHANGED <<ingredientCategories, answers, error, cause, failedAt, formats,
                    detection>>

\* a caller inside the program invokes generateGroceryList(ids, opts)
Call(c, ids, opts) ==
  /\ pc[c] = "idle"
  /\ generateGroceryList(c, ArrayArg(ids), ObjectArg(opts), NoRequest)

\* a caller inside the program invokes generateGroceryList(id, opts) with
\* one identifier that is not in an array
CallSingle(c, id, opts) ==
  /\ pc[c] = "idle"
  /\ generateGroceryList(c, IntegerArg(id), ObjectArg(opts), NoRequest)

\* the lookup at position p answers with a recipe: the rest of the loop
\* body runs, then either the next lookup is started or the function
\* groups, sorts, fills the summary and returns
Resolve(c, p, recipe) ==
  LET list == processRecipe(groceryList[listOf(c)], recipe, options[c],
                            ingredientCategories)
      completed == Len(answers[c]) + 1
      start == lookupsToStart(recipeIds[c], completed)
      left == (outstanding[c] \ {p}) \cup start
  IN /\ pc[c] = "awaiting"
     /\ p \in outstanding[c]
     /\ answers' = [answers EXCEPT ![c] = Append(@, recipe)]
     /\ outstanding' = [outstanding EXCEPT ![c] = left]
     /\ issued' = [issued EXCEPT ![c] = @ \o ascending(start)]
     /\ IF left = {}
        THEN /\ pc' = [pc EXCEPT ![c] = "done"]
             /\ groceryList' = [groceryList EXCEPT ![listOf(c)] = finishGroceryList(list)]
             /\ result' = [result EXCEPT ![c] = finishGroceryList(list)]
             /\ response' = [response EXCEPT ![c] =
                               IF request[c] \in {NoRequest, FormatsCaller} THEN @
                               ELSE resJson(finishGroceryList(list), SuccessMessage)]
        ELSE /\ groceryList' = [groceryList EXCEPT ![listOf(c)] = list]
             /\ UNCHANGED <<pc, result, response>>
     /\ overlapped' = [overlapped EXCEPT ![c] = @ \/ othersAwaiting(c)]
     /\ UNCHANGED <<ingredientCategories, recipeIds, options, error, cause,
                    failedAt, request, argument, formats, detection>>

\* the try block of the lookup at position p throws: getRecipeById
\* rejects with what its catch clause builds, the await throws, and the
\* caller hands the error to the error middleware
Reject(c, p, thrown) ==
  LET err == getRecipeByIdCatch(recipeIds[c][p], thrown)
      again == lookupsAfterFailure(issued[c], p)
      end == rejected(groceryList[listOf(c)], err)
  IN /\ pc[c] = "awaiting"
     /\ p \in outstanding[c]
     /\ cause' = [cause EXCEPT ![c] = IF failedAt[c] = 0 THEN thrown ELSE @]
     /\ failedAt' = [failedAt EXCEPT ![c] = IF @ = 0 THEN p ELSE @]
     /\ issued' = [issued EXCEPT ![c] = @ \o ascending(again)]
     /\ IF again = {}
        THEN /\ outstanding' = [outstanding EXCEPT ![c] = {}]
             /\ pc' = [pc EXCEPT ![c] = end.pc]
             /\ result' = [result EXCEPT ![c] = end.result]
             /\ error' = [error EXCEPT ![c] = end.error]
             /\ response' = [response EXCEPT ![c] =
                               IF end.error = NoError THEN @
                               ELSE errorMiddleware(end.error)]
        ELSE /\ outstanding' = [outstanding EXCEPT ![c] = (@ \ {p}) \cup again]
             /\ UNCHANGED <<pc, result, error, response>>
     /\ overlapped' = [overlapped EXCEPT ![c] = @ \/ othersAwaiting(c)]
     /\ UNCHANGED <<ingredientCategories, recipeIds, options, groceryList, answers,
                    request, argument, formats, detection>>

RejectNotFound(c, p) == Reject(c, p, SyntaxError)

RejectUnreachable(c, p) == \E thrown \in NetworkErrors : Reject(c, p, thrown)

\* getShoppingListFormats(ids, opts) up to its await: it invokes
\* generateGroceryList(ids, opts)
CallFormats(c, ids, opts) ==
  /\ pc[c] = "idle"
  /\ generateGroceryList(c, ArrayArg(ids), ObjectArg(opts), FormatsCaller)

\* getShoppingListFormats after its await: the list has been returned and
\* the four formats are built from it
ReturnFormats(c) ==
  /\ pc[c] = "done"
  /\ request[c] = FormatsCaller
  /\ formats[c] = NoFormats
  /\ formats' = [formats EXCEPT ![c] =
                   [detailed |-> result[c],
                    simple |-> createSimpleList(result[c]),
                    checklist |-> createChecklist(result[c]),
                    categoryOrganized |-> result[c].categorizedIngredients]]
  /\ UNCHANGED <<ingredientCategories, pc, recipeIds, options, groceryList,
                 outstanding, issued, answers, result, error, cause, failedAt,
                 response, overlapped, request, argument, detection>>

\* ------------------------------------------------------------------------
\* The handler detectIngredients
\* ------------------------------------------------------------------------
groceryVars == <<ingredientCategories, pc, recipeIds, options, groceryList,
                 outstanding, issued, answers, result, error, cause, failedAt,
                 response, overlapped, request, argument, formats>>

\* the request arrives: without a file it is answered 400; with a file
\* the handler awaits extractIngredientsFromImage(imagePath)
DetectIngredients(r, imagePath) ==
  /\ detection[r].pc = "idle"
  /\ detection' = [detection EXCEPT ![r] =
        IF imagePath = NoPath
        THEN respond([@ EXCEPT !.imagePath = imagePath], 400,
                     [success |-> FALSE, error |-> "No image uploaded"])
        ELSE [@ EXCEPT !.pc = "extracting", !.imagePath = imagePath]]
  /\ UNCHANGED groceryVars

\* extractIngredientsFromImage answers: the list is cleaned and the
\* handler awaits findRecipesByIngredients(ingredients)
Extracted(r, resultText) ==
  /\ detection[r].pc = "extracting"
  /\ detection' = [detection EXCEPT ![r] =
        [@ EXCEPT !.pc = "finding", !.ingredients = ingredientsOf(resultText)]]
  /\ UNCHANGED groceryVars

\* extractIngredientsFromImage rejects: the file cannot be read or the
\* generative model fails; the catch clause answers 500
ExtractionFailed(r) ==
  /\ detection[r].pc = "extracting"
  /\ detection' = [detection EXCEPT ![r] =
        respond(@, 500, [success |-> FALSE, error |-> "Failed to process image."])]
  /\ UNCHANGED groceryVars

\* findRecipesByIngredients answers, with the recipes of the generative
\* model or, when that fails, with its fallback recipes
RecipesFound(r, totalFound) ==
  /\ detection[r].pc = "finding"
  /\ detection' = [detection EXCEPT ![r] =
        respond(@, 200,
                [success |-> TRUE,
                 recipes |-> [searchedIngredients |-> @.ingredients,
                              totalFound |-> totalFound]])]
  /\ UNCHANGED groceryVars

\* the callback of fs.unlink runs and logs the outcome
Unlinked(r) ==
  /\ detection[r].callbacks < Len(detection[r].unlinks)
  /\ detection' = [detection EXCEPT ![r].callbacks = @ + 1]
  /\ UNCHANGED groceryVars

\* ------------------------------------------------------------------------
\* Handlers of the grocery-list routes
\* ------------------------------------------------------------------------
\* a request: the handler the router picked and the parameters it reads.
\* A parameter that was not sent is the empty string, which the handlers
\* test the same way (!recipeId, servings ? ... : null).
Request(handler, recipeId, servings, isArray, ids, servingsById) ==
  [handler |-> handler, recipeId |-> recipeId, servings |-> servings,
   isArray |-> isArray, recipeIds |-> ids, servingsById |-> servingsById]

\* return res.status(400).json(createErrorResponse(message, 400))
Refuse(c, req, message) ==
  /\ pc' = [pc EXCEPT ![c] = "refused"]
  /\ response' = [response EXCEPT ![c] = createErrorResponse(message, 400)]
  /\ request' = [request EXCEPT ![c] = req]
  /\ UNCHANGED <<ingredientCategories, recipeIds, options, groceryList,
                 outstanding, issued, answers, result, error, cause, failedAt,
                 overlapped, argument, formats, detection>>

\* GET /grocery-list?recipeId=..&servings=..
GetGroceryList(c, query) ==
  LET req == Request("getGroceryList", query.recipeId, query.servings, FALSE, <<>>, <<>>)
      id == parseInt(query.recipeId)
      targetServings == IF query.servings # <<>> THEN parseInt(query.servings) ELSE NaN
  IN /\ pc[c] = "idle"
     /\ IF query.recipeId = <<>> \/ id.nan
        THEN Refuse(c, req, "Valid recipe ID is required")
        ELSE IF query.servings # <<>> /\ (targetServings.nan \/ targetServings.value <= 0)
        THEN Refuse(c, req, "Servings must be a positive number")
        ELSE /\ "generateGroceryList" \in ServiceMethods
             /\ generateGroceryList(c, IntegerArg(id.value),
                                    IF query.servings # <<>>
                                    THEN NumberArg(targetServings.value) ELSE NullArg,
                                    req)

\* POST /grocery-list/multiple with body {recipeIds, servings}
GetMultipleGroceryList(c, body) ==
  LET req == Request("getMultipleGroceryList", <<>>, <<>>, body.isArray,
                     body.recipeIds, body.servings)
  IN /\ pc[c] = "idle"
     /\ IF ~body.isArray \/ Len(body.recipeIds) = 0
        THEN Refuse(c, req, "Array of recipe IDs is required")
        ELSE IF \E i \in 1..Len(body.recipeIds) : parseInt(body.recipeIds[i]).nan
        THEN Refuse(c, req, "All recipe IDs must be valid numbers")
        ELSE /\ "generateMultipleGroceryList" \notin ServiceMethods
             /\ Throw(c, req,
                      TypeError("groceryService.generateMultipleGroceryList is not a function"))

\* GET /grocery-list/:recipeId/by-category?servings=..
GetGroceryListByCategory(c, params, query) ==
  LET req == Request("getGroceryListByCategory", params.recipeId, query.servings,
                     FALSE, <<>>, <<>>)
  IN /\ pc[c] = "idle"
     /\ IF params.recipeId = <<>> \/ parseInt(params.recipeId).nan
        THEN Refuse(c, req, "Valid recipe ID is required")
        ELSE /\ "generateGroceryListByCategory" \notin ServiceMethods
             /\ Throw(c, req,
                      TypeError("groceryService.generateGroceryListByCategory is not a function"))


\* POST /grocery-list/check-availability with body {ingredients}
CheckIngredientAvailability(c, body) ==
  LET req == Request("checkIngredientAvailability", <<>>, <<>>, body.isArray,
                     body.ingredients, <<>>)
  IN /\ pc[c] = "idle"
     /\ IF ~body.isArray \/ Len(body.ingredients) = 0
        THEN Refuse(c, req, "Array of ingredients is required")
        ELSE /\ "checkIngredientAvailability" \notin ServiceMethods
             /\ Throw(c, req,
                      TypeError("groceryService.checkIngredientAvailability is not a function"))

\* ------------------------------------------------------------------------
\* Inputs: identifiers, options and the recipes the lookup answers with
\* ------------------------------------------------------------------------
eggs == <<"e","g","g","s">>
cheese == <<"c","h","e","e","s","e">>
butter == <<"b","u","t","t","e","r">>
bread == <<"b","r","e","a","d">>
Butter == <<"B","u","t","t","e","r">>
kale == <<"k","a","l","e">>

KnownIds == {1, 2}

\* a RecipeRef the lookup may return for recipeId; the generative model
\* may answer the same identifier differently from one lookup to the next
RecipeAnswers(recipeId) ==
  IF recipeId = 1
  THEN {[id |-> 1, name |-> "Omelet", servings |-> 2, cookingTime |-> 10,
         ingredients |-> <<eggs, cheese, butter>>],
        [id |-> 1, name |-> "Kale Chips", servings |-> 2, cookingTime |-> 20,
         ingredients |-> <<kale>>]}
  ELSE {[id |-> recipeId, name |-> "Toast", servings |-> 1, cookingTime |-> 5,
         ingredients |-> <<bread, butter>>],
        [id |-> recipeId, name |-> "Garlic Toast", servings |-> 4, cookingTime |-> 15,
         ingredients |-> <<bread, Butter, kale, bread>>]}

\* a lookup that answers an identifier the same way every time
StableAnswers(recipeId) ==
  {r \in RecipeAnswers(recipeId) : r.name \in {"Omelet", "Toast"}}

\* recipes of the scaling sweep: every native serving count
ScalingAnswers(recipeId) ==
  {[id |-> recipeId, name |-> "Pantry", servings |-> n, cookingTime |-> 20,
    ingredients |-> <<butter, eggs, kale>>] : n \in 1..MaxNativeServings}

IdSeqs(lo, hi) == UNION {[1..k -> KnownIds] : k \in lo..hi}

OptionSet(servingsSet, excludeSet) ==
  {[servings |-> s, excludeIngredients |-> x] : s \in servingsSet, x \in excludeSet}

\* ------------------------------------------------------------------------
\* Specifications
\* ------------------------------------------------------------------------
\* one invocation, every option
Next ==
  \/ \E ids \in IdSeqs(0, MaxIds),
        opts \in OptionSet(0..MaxServings, {<<>>, <<butter>>, <<Butter>>}) :
        Call("A", ids, opts)
  \/ \E p \in outstanding["A"] : \E recipe \in RecipeAnswers(recipeIds["A"][p]) :
        Resolve("A", p, recipe)
  \/ \E p \in outstanding["A"] : RejectNotFound("A", p)
  \/ \E p \in outstanding["A"] : RejectUnreachable("A", p)

Spec == Init /\ [][Next]_vars

\* two invocations whose steps interleave at the lookups; they differ in
\* their options, so that a value leaking from one to the other shows
ConcurrentOptions(c) ==
  [servings |-> IF c = "A" THEN MaxServings ELSE 0, excludeIngredients |-> <<>>]

NextConcurrent ==
  \/ \E c \in Calls, ids \in IdSeqs(1, MaxIds) :
        Call(c, ids, ConcurrentOptions(c))
  \/ \E c \in Calls : \E p \in outstanding[c] :
        \E recipe \in StableAnswers(recipeIds[c][p]) :
        Resolve(c, p, recipe)
  \/ \E c \in Calls : \E p \in outstanding[c] : RejectNotFound(c, p)
  \/ \E c \in Calls : \E p \in outstanding[c] : RejectUnreachable(c, p)

SpecConcurrent == Init /\ [][NextConcurrent]_vars

\* the scaling sweep: one recipe, every pair of requested and native
\* serving counts
NextScaling ==
  \/ \E ids \in IdSeqs(1, 1),
        opts \in OptionSet(0..MaxQtyServings, {<<>>}) :
        Call("A", ids, opts)
  \/ \E p \in outstanding["A"] : \E recipe \in ScalingAnswers(recipeIds["A"][p]) :
        Resolve("A", p, recipe)
  \/ \E p \in outstanding["A"] : RejectNotFound("A", p)
  \/ \E p \in outstanding["A"] : RejectUnreachable("A", p)

SpecScaling == Init /\ [][NextScaling]_vars

\* ingredient names of the categorisation sweep: every keyword of the
\* table, its prefixes up to MaxPrefix characters, and names that contain
\* a keyword, are written with capitals, or match nothing
ProbeNames ==
  LET keywords == UNION {{CategoryTable[i].items[j] : j \in 1..Len(CategoryTable[i].items)} :
                         i \in 1..Len(CategoryTable)}
  IN keywords
     \cup {SubSeq(k, 1, n) : k \in keywords, n \in 0..MaxPrefix}
     \cup {kale, Butter,
           <<"C","h","e","r","r","y"," ","T","o","m","a","t","o">>,
           <<"g","a","r","l","i","c"," ","b","r","e","a","d">>,
           <<"c","r","e","a","m"," ","c","h","e","e","s","e">>,
           <<"R","I","C","E">>,
           <<"q","u","i","n","o","a">>,
           <<"s","a","u","c","e">>,
           <<"o","i","l">>}

\* recipes of the categorisation sweep: one ingredient each
ProbeAnswers(recipeId) ==
  {[id |-> recipeId, name |-> "Probe", servings |-> 2, cookingTime |-> 1,
    ingredients |-> <<n>>] : n \in ProbeNames}

NextCategorize ==
  \/ \E ids \in IdSeqs(1, 1), opts \in OptionSet({0}, {<<>>}) :
        Call("A", ids, opts)
  \/ \E p \in outstanding["A"] : \E recipe \in ProbeAnswers(recipeIds["A"][p]) :
        Resolve("A", p, recipe)
  \/ \E p \in outstanding["A"] : RejectNotFound("A", p)
  \/ \E p \in outstanding["A"] : RejectUnreachable("A", p)

SpecCategorize == Init /\ [][NextCategorize]_vars

\* answers of the generative model to the image prompt, "/" standing for
\* the newline: bulleted, numbered, indented and empty lines
ResultTexts ==
  {<<"-", " ", "e", "g", "g", "s", "/", "*", " ", "k", "a", "l", "e", " ">>,
   <<"1", ".", " ", "e", "g", "g", "s", "/", "/", "2", ".", "k", "a", "l", "e">>,
   <<" ", " ", "-", " ", "e", "g", "g", "s">>,
   <<Bullet, " ", "7", "u", "p">>,
   <<>>}

\* paths multer gives an uploaded file; none when no file came
UploadPaths(r) == {NoPath, "uploads/img-" \o ToString(r)}

\* detect-ingredients requests, together
NextDetect ==
  \/ \E r \in Uploads : \E imagePath \in UploadPaths(r) : DetectIngredients(r, imagePath)
  \/ \E r \in Uploads, resultText \in ResultTexts : Extracted(r, resultText)
  \/ \E r \in Uploads : ExtractionFailed(r)
  \/ \E r \in Uploads, totalFound \in {0, 2} : RecipesFound(r, totalFound)
  \/ \E r \in Uploads : Unlinked(r)

\* every awaited promise settles, and the callback of unlink runs
DetectFairness ==
  \A r \in Uploads :
    /\ WF_vars(ExtractionFailed(r) \/ \E resultText \in ResultTexts : Extracted(r, resultText))
    /\ WF_vars(\E totalFound \in {0, 2} : RecipesFound(r, totalFound))
    /\ WF_vars(Unlinked(r))

SpecDetect == Init /\ [][NextDetect]_vars /\ DetectFairness

\* one invocation of getShoppingListFormats
NextFormats ==
  \/ \E ids \in IdSeqs(0, MaxIds),
        opts \in OptionSet({0, MaxServings}, {<<>>, <<butter>>}) :
        CallFormats("A", ids, opts)
  \/ \E p \in outstanding["A"] : \E recipe \in RecipeAnswers(recipeIds["A"][p]) :
        Resolve("A", p, recipe)
  \/ \E p \in outstanding["A"] : RejectNotFound("A", p)
  \/ \E p \in outstanding["A"] : RejectUnreachable("A", p)
  \/ ReturnFormats("A")

SpecFormats == Init /\ [][NextFormats]_vars

\* both forms of the first argument, every option
NextSingle ==
  \/ \E id \in KnownIds,
        opts \in OptionSet(0..MaxServings, {<<>>, <<butter>>}) :
        CallSingle("A", id, opts)
  \/ \E ids \in IdSeqs(1, 1),
        opts \in OptionSet(0..MaxServings, {<<>>, <<butter>>}) :
        Call("A", ids, opts)
  \/ \E p \in outstanding["A"] : \E recipe \in RecipeAnswers(recipeIds["A"][p]) :
        Resolve("A", p, recipe)
  \/ \E p \in outstanding["A"] : RejectNotFound("A", p)
  \/ \E p \in outstanding["A"] : RejectUnreachable("A", p)

SpecSingle == Init /\ [][NextSingle]_vars

\* parameter strings of the requests: absent, positive, zero, negative,
\* a number followed by letters, and letters only
IdStrings == {<<>>, <<"1">>, <<"2">>, <<"0">>, <<"-", "5">>, <<"2", "x">>, <<"a", "b", "c">>}
ServingsStrings == {<<>>, <<"3">>, <<"4">>, <<"0">>, <<"x">>}

Queries == {[recipeId |-> r, servings |-> s] : r \in IdStrings, s \in ServingsStrings}

\* bodies of POST /grocery-list/multiple: recipeIds missing or not an
\* array, empty, and arrays of identifiers; servings absent or {1: 4}
Bodies ==
  {[isArray |-> FALSE, recipeIds |-> <<>>, servings |-> <<>>]}
  \cup {[isArray |-> TRUE, recipeIds |-> ids, servings |-> s] :
          ids \in {<<>>, << <<"1">> >>, << <<"1">>, <<"2">> >>,
                   << <<"1">>, <<"a", "b", "c">> >>, << <<"0">> >>},
          s \in {<<>>, <<[key |-> 1, val |-> 4]>>}}

\* bodies of POST /grocery-list/check-availability: ingredients missing
\* or not an array, empty, and arrays of names
AvailabilityBodies ==
  {[isArray |-> FALSE, ingredients |-> <<>>]}
  \cup {[isArray |-> TRUE, ingredients |-> names] :
          names \in {<<>>, <<eggs>>, <<eggs, kale>>, <<kale, eggs, eggs>>}}

\* the routes of the grocery list and an internal caller, one request
NextHttp ==
  \/ \E body \in AvailabilityBodies : CheckIngredientAvailability("A", body)
  \/ \E query \in Queries : GetGroceryList("A", query)
  \/ \E body \in Bodies : GetMultipleGroceryList("A", body)
  \/ \E r \in IdStrings, s \in ServingsStrings :
        GetGroceryListByCategory("A", [recipeId |-> r], [servings |-> s])
  \/ \E ids \in IdSeqs(0, 1), opts \in OptionSet({0, MaxServings}, {<<>>}) :
        Call("A", ids, opts)
  \/ \E p \in outstanding["A"] : \E recipe \in RecipeAnswers(recipeIds["A"][p]) :
        Resolve("A", p, recipe)
  \/ \E p \in outstanding["A"] : RejectNotFound("A", p)
  \/ \E p \in outstanding["A"] : RejectUnreachable("A", p)

SpecHttp == Init /\ [][NextHttp]_vars


\* ------------------------------------------------------------------------
\* Properties
\* ------------------------------------------------------------------------
Done(c) == pc[c] = "done"

\* the entries of an object, as a set of values
Values(obj) == {obj[i].val : i \in 1..Len(obj)}

\* positions <<i, j>> of the category lists that hold the name
Places(list, name) ==
  {ij \in (1..Len(list.categorizedIngredients)) \X (1..Len(list.ingredients)) :
     /\ ij[2] <= Len(list.categorizedIngredients[ij[1]].val)
     /\ list.categorizedIngredients[ij[1]].val[ij[2]].name = name}

\* C1: in every list a call returned, each key of ingredients is found at
\* exactly one place of the category lists, no list is longer than the
\* number of keys, and every entry of a category list is named by a key.
C1_Partition ==
  \A c \in Calls : Done(c) =>
    LET list == result[c]
    IN /\ \A i \in 1..Len(list.ingredients) :
             Cardinality(Places(list, list.ingredients[i].key)) = 1
       /\ \A i \in 1..Len(list.categorizedIngredients) :
             /\ Len(list.categorizedIngredients[i].val) <= Len(list.ingredients)
             /\ \A j \in 1..Len(list.categorizedIngredients[i].val) :
                   hasKey(list.ingredients, list.categorizedIngredients[i].val[j].name)

C1_Witness ==
  \E c \in Calls :
    /\ Done(c)
    /\ Len(result[c].categorizedIngredients) >= 2
    /\ \E i \in 1..Len(result[c].categorizedIngredients) :
          Len(result[c].categorizedIngredients[i].val) >= 2

\* the first of the answered recipes that lists the ingredient
FirstWith(as, name) ==
  CHOOSE j \in 1..Len(as) :
    /\ arrayIncludes(as[j].ingredients, name)
    /\ \A k \in 1..(j - 1) : ~arrayIncludes(as[k].ingredients, name)

\* C2: every entry of a returned list carries the quantity, unit, notes
\* and category computed for the first answered recipe that lists the
\* ingredient, whatever later recipes list it too; that recipe heads the
\* entry's contributing recipes.
C2_FirstRecipeWins ==
  \A c \in Calls : Done(c) =>
    \A e \in Values(result[c].ingredients) :
      LET first == answers[c][FirstWith(answers[c], e.name)]
          q == calculateIngredientQuantity(e.name,
                  servingMultiplier(options[c].servings, first.servings))
      IN /\ e.quantity = q.amount
         /\ e.unit = q.unit
         /\ e.notes = q.notes
         /\ e.category = categorizeIngredient(e.name, CategoryTable)
         /\ e.recipes[1] = [recipeId |-> first.id, recipeName |-> first.name]

C2_Witness ==
  \E c \in Calls :
    /\ Done(c)
    /\ Len(answers[c]) = 2
    /\ \E e \in Values(result[c].ingredients) :
          /\ arrayIncludes(answers[c][1].ingredients, e.name)
          /\ arrayIncludes(answers[c][2].ingredients, e.name)
          /\ Len(e.recipes) >= 2
          /\ e.quantity #
               calculateIngredientQuantity(e.name,
                  servingMultiplier(options[c].servings, answers[c][2].servings)).amount

\* the answered recipes that list the ingredient, one item for each, in
\* the order of the answers
Contributors(as, name) ==
  LET with == SelectSeq(as, LAMBDA r : arrayIncludes(r.ingredients, name))
  IN [i \in 1..Len(with) |-> [recipeId |-> with[i].id, recipeName |-> with[i].name]]

\* C3: the contributing recipes of every entry of a returned list are the
\* answered recipes that list the ingredient, each once, in the order of
\* the answers, and no recipe is in the list twice.
C3_NoDuplicateContributors ==
  \A c \in Calls : Done(c) =>
    \A e \in Values(result[c].ingredients) :
      /\ e.recipes = Contributors(answers[c], e.name)
      /\ \A i, j \in 1..Len(e.recipes) : i # j => e.recipes[i] # e.recipes[j]

\* C4: once a lookup of a call has failed the call has failed: it has
\* returned no list and has rejected with an error; a list is returned
\* only by a call none of whose lookups failed.
C4_FailureVoidsList ==
  \A c \in Calls :
    /\ failedAt[c] # 0 => pc[c] = "failed" /\ result[c] = NoList /\ error[c] # NoError
    /\ result[c] # NoList => Done(c) /\ Len(answers[c]) = Len(recipeIds[c])

C4_Witness ==
  \E c \in Calls :
    /\ pc[c] = "failed"
    /\ failedAt[c] = 2
    /\ groceryList[c] # NoList
    /\ Len(groceryList[c].ingredients) >= 1
    /\ result[c] = NoList

\* C5: at any time at most one lookup of a call is in flight, the lookups
\* were started in the order of the identifiers without a gap, and the
\* one in flight is for the position after those already answered.
C5_SequentialLookups ==
  \A c \in Calls :
    /\ Cardinality(outstanding[c]) <= 1
    /\ issued[c] = [i \in 1..Len(issued[c]) |-> i]
    /\ \A p \in outstanding[c] : p = Len(answers[c]) + 1

C5_Witness ==
  \E c \in Calls :
    pc[c] = "awaiting" /\ outstanding[c] = {2} /\ Len(answers[c]) = 1

\* C6: a call that returned a list has looked up each position of its
\* identifiers exactly once, in order; a call one of whose lookups failed
\* at position k has looked up the positions up to k, once each, and has
\* no lookup in flight.
C6_OncePerIdentifier ==
  \A c \in Calls :
    /\ Done(c) => issued[c] = [i \in 1..Len(recipeIds[c]) |-> i]
    /\ failedAt[c] # 0 =>
         /\ issued[c] = [i \in 1..failedAt[c] |-> i]
         /\ outstanding[c] = {}

C6_Witness ==
  \E c \in Calls :
    /\ failedAt[c] = 1
    /\ Len(recipeIds[c]) >= 2
    /\ Len(issued[c]) = 1

\* C7: when the lookup fails because the collaborator cannot be reached,
\* the call rejects with that very failure, which is not the error of a
\* recipe that does not exist, and the caller answers 503.
C7_UnreachablePropagated ==
  \A c \in Calls :
    (pc[c] = "failed" /\ cause[c] \in NetworkErrors) =>
      /\ error[c] = cause[c]
      /\ error[c] # getRecipeByIdCatch(recipeIds[c][failedAt[c]], SyntaxError)
      /\ response[c].statusCode = 503

RECURSIVE processAll(_, _, _, _)
\* the outer loop over the first n answers, with no other call around
processAll(list, as, n, opts) ==
  IF n = 0 THEN list
  ELSE processRecipe(processAll(list, as, n - 1, opts), as[n], opts, CategoryTable)

\* generateGroceryList run alone with the given lookup answers
runAlone(ids, opts, as) ==
  finishGroceryList(processAll(newGroceryList(ids), as, Len(as), opts))

\* C8: a call that returned, returned the list it returns when run alone
\* with the same identifiers, options and lookup answers, whatever the
\* other call did in between; a failed call returned nothing; the
\* category table of the service is the one the constructor built.
C8_Isolated ==
  /\ ingredientCategories = CategoryTable
  /\ \A c \in Calls :
       /\ Done(c) => result[c] = runAlone(recipeIds[c], options[c], answers[c])
       /\ pc[c] = "failed" => result[c] = NoList

C8_Witness ==
  /\ \A c \in Calls : Done(c) /\ overlapped[c] /\ Len(answers[c]) >= 2
  /\ \E e \in Values(result["A"].ingredients), f \in Values(result["B"].ingredients) :
        e.name = f.name /\ e.quantity # f.quantity

BaseAmount(name) ==
  IF hasKey(baseQuantities, toLowerCase(name))
  THEN get(baseQuantities, toLowerCase(name)).amount
  ELSE defaultQuantity.amount

\* C10: the quantity of an ingredient is ceil(base * s / n) for requested
\* servings s and the n servings of the recipe that introduced it, and
\* the base amount when no servings are requested.
C10_ExactScaling ==
  \A c \in Calls : Done(c) =>
    \A e \in Values(result[c].ingredients) :
      LET n == answers[c][FirstWith(answers[c], e.name)].servings
          s == options[c].servings
      IN e.quantity = IF s = 0 THEN BaseAmount(e.name)
                      ELSE CeilDiv(BaseAmount(e.name) * s, n)

\* the names the answered recipes list
Listed(as) ==
  UNION {{as[j].ingredients[k] : k \in 1..Len(as[j].ingredients)} : j \in 1..Len(as)}

\* the names of the entries of the category lists
CategorizedNames(list) ==
  UNION {{list.categorizedIngredients[i].val[j].name :
            j \in 1..Len(list.categorizedIngredients[i].val)} :
         i \in 1..Len(list.categorizedIngredients)}

Keys(obj) == {obj[i].key : i \in 1..Len(obj)}

Elements(arr) == {arr[i] : i \in 1..Len(arr)}

\* C11: in a returned list no name of excludeIngredients is a key of
\* ingredients or the name of an entry of a category list or counted in
\* totalIngredients, and every listed name that differs from all of
\* them in more than letter case is a key.
C11_ExcludedAbsent ==
  \A c \in Calls : Done(c) =>
    LET excluded == Elements(options[c].excludeIngredients)
        others == {n \in Listed(answers[c]) :
                     \A x \in excluded : toLowerCase(x) # toLowerCase(n)}
    IN /\ Keys(result[c].ingredients) \cap excluded = {}
       /\ CategorizedNames(result[c]) \cap excluded = {}
       /\ result[c].summary.totalIngredients
            = Cardinality(Keys(result[c].ingredients) \ excluded)
       /\ others \subseteq Keys(result[c].ingredients)

\* C12: in a returned list the keys of ingredients are the names the
\* answered recipes list that equal no entry of excludeIngredients when
\* letter case is ignored on both sides.
C12_CaseInsensitiveExclusion ==
  \A c \in Calls : Done(c) =>
    Keys(result[c].ingredients) =
      {n \in Listed(answers[c]) :
         \A x \in Elements(options[c].excludeIngredients) :
            toLowerCase(x) # toLowerCase(n)}

\* C13: in a returned list summary.totalIngredients is the number of
\* distinct keys of ingredients.
C13_TotalIngredients ==
  \A c \in Calls : Done(c) =>
    result[c].summary.totalIngredients = Cardinality(Keys(result[c].ingredients))

\* a returned list of two recipes with an ingredient both of them list
C13_Witness ==
  /\ Done("A")
  /\ Len(answers["A"]) = 2
  /\ result["A"].summary.totalIngredients >= 2
  /\ \E i \in 1..Len(result["A"].ingredients) :
        Len(result["A"].ingredients[i].val.recipes) >= 2

RECURSIVE SumCookingTime(_, _)
\* the sum of cookingTime over the first n answered recipes
SumCookingTime(as, n) ==
  IF n = 0 THEN 0 ELSE SumCookingTime(as, n - 1) + as[n].cookingTime

\* C14: in a returned list one recipe was processed per element of the
\* identifier sequence and summary.estimatedTime is the sum of their
\* cookingTime, whatever the options.
C14_EstimatedTime ==
  \A c \in Calls : Done(c) =>
    /\ Len(answers[c]) = Len(recipeIds[c])
    /\ result[c].summary.estimatedTime = SumCookingTime(answers[c], Len(answers[c]))

\* a returned list of two recipes asked for with a servings override and
\* an exclusion
C14_Witness ==
  /\ Done("A")
  /\ Len(recipeIds["A"]) = 2
  /\ options["A"].servings # 0
  /\ options["A"].excludeIngredients # <<>>
  /\ result["A"].summary.estimatedTime > answers["A"][1].cookingTime

\* the categories in the order the lookup tries them
CategoryOrder == <<"produce", "dairy", "protein", "pantry", "bread", "condiments">>

CategoryTags == {CategoryOrder[i] : i \in 1..Len(CategoryOrder)} \cup {"other"}

\* a occurs in b as a run of consecutive characters
Within(a, b) == \E i \in 1..(Len(b) + 1), j \in 0..Len(b) : SubSeq(b, i, j) = a

\* some keyword of the category is within the lowercased name, or the
\* lowercased name is within it
Matches(name, category) ==
  \E i \in 1..Len(ingredientCategories) :
     /\ ingredientCategories[i].category = category
     /\ \E j \in 1..Len(ingredientCategories[i].items) :
           \/ Within(ingredientCategories[i].items[j], toLowerCase(name))
           \/ Within(toLowerCase(name), ingredientCategories[i].items[j])

\* C15: every entry of a returned list carries one of the seven tags: the
\* first category, in the order produce, dairy, protein, pantry, bread,
\* condiments, one of whose keywords is within the lowercased name or
\* has the lowercased name within it, and other exactly when no category
\* has such a keyword.
C15_Categorize ==
  \A c \in Calls : Done(c) =>
    \A i \in 1..Len(result[c].ingredients) :
      LET name == result[c].ingredients[i].key
          tag == result[c].ingredients[i].val.category
      IN /\ tag \in CategoryTags
         /\ (tag = "other") <=> (\A k \in 1..Len(CategoryOrder) : ~Matches(name, CategoryOrder[k]))
         /\ \A k \in 1..Len(CategoryOrder) :
               (tag = CategoryOrder[k]) <=>
                  /\ Matches(name, CategoryOrder[k])
                  /\ \A h \in 1..(k - 1) : ~Matches(name, CategoryOrder[h])

\* a returned list with a name that is a prefix of a keyword of two
\* categories and takes the first of them
C15_Witness ==
  /\ Done("A")
  /\ \E i \in 1..Len(result["A"].ingredients) :
        /\ result["A"].ingredients[i].key = <<"b","u">>
        /\ Matches(<<"b","u">>, "dairy")
        /\ Matches(<<"b","u">>, "bread")
        /\ result["A"].ingredients[i].val.category = "dairy"

\* the message that names identifier i as the one not found
NotFoundMessage(i) == "Recipe with ID " \o ToString(i) \o " not found"

\* C16: the error of a failed call names the identifier whose lookup
\* failed, and no other identifier.
C16_ErrorNamesIdentifier ==
  \A c \in Calls : pc[c] = "failed" =>
    /\ failedAt[c] \in 1..Len(recipeIds[c])
    /\ error[c].message = NotFoundMessage(recipeIds[c][failedAt[c]])
    /\ \A i \in KnownIds \ {recipeIds[c][failedAt[c]]} :
          error[c].message # NotFoundMessage(i)

\* a call for two different identifiers that failed at the second, the
\* first having been answered
C16_Witness ==
  /\ pc["A"] = "failed"
  /\ Len(recipeIds["A"]) = 2
  /\ recipeIds["A"][1] # recipeIds["A"][2]
  /\ failedAt["A"] = 2
  /\ Len(answers["A"]) = 1
  /\ error["A"].message = NotFoundMessage(recipeIds["A"][2])

\* the invocation has ended, and not because a lookup failed
Ended(c) == pc[c] \in {"done", "failed", "refused"} /\ failedAt[c] = 0

\* the string writes a whole number greater than zero
PositiveNumeric(s) == ~parseInt(s).nan /\ parseInt(s).value > 0

\* the request names an identifier that is non-numeric or not positive,
\* or gives no identifier
InvalidIdentifiers(req) ==
  \/ /\ req.handler \in {"getGroceryList", "getGroceryListByCategory"}
     /\ ~PositiveNumeric(req.recipeId)
  \/ /\ req.handler = "getMultipleGroceryList"
     /\ \/ ~req.isArray
        \/ Len(req.recipeIds) = 0
        \/ \E i \in 1..Len(req.recipeIds) : ~PositiveNumeric(req.recipeIds[i])

\* C17: a request whose identifier is non-numeric or not positive, or
\* whose identifier sequence is empty, is answered with status 400
\* without a lookup having been started or a list built; so is a call
\* of the service with the empty sequence.
C17_InvalidInputRefused ==
  \A c \in Calls :
    /\ (pc[c] # "idle" /\ InvalidIdentifiers(request[c])) =>
          /\ pc[c] = "refused"
          /\ response[c].statusCode = 400
          /\ issued[c] = <<>>
          /\ groceryList[c] = NoList
    /\ (pc[c] # "idle" /\ request[c] = NoRequest /\ recipeIds[c] = <<>>) =>
          /\ pc[c] \in {"refused", "failed"}
          /\ result[c] = NoList

\* C18: once GET /grocery-list with a numeric recipeId, and servings
\* absent or a positive number s, has ended without a lookup failure,
\* the response is a success whose data is the list that
\* generateGroceryList(recipeId, {servings: s}) builds from the same
\* answers.
C18_HandlerMatchesService ==
  \A c \in Calls :
    (/\ request[c].handler = "getGroceryList"
     /\ ~parseInt(request[c].recipeId).nan
     /\ request[c].servings = <<>> \/ PositiveNumeric(request[c].servings)
     /\ Ended(c)) =>
       /\ response[c].success
       /\ response[c].data =
            runAlone(<<parseInt(request[c].recipeId).value>>,
                     [servings |-> IF request[c].servings = <<>> THEN 0
                                   ELSE parseInt(request[c].servings).value,
                      excludeIngredients |-> <<>>],
                     answers[c])

\* C19: once POST /grocery-list/multiple with a non-empty array of
\* numeric identifiers has ended without a lookup failure, the response
\* is a success whose data lists one recipe per identifier, each with
\* its own servings override when the body gives one.
C19_MultipleYieldsList ==
  \A c \in Calls :
    (/\ request[c].handler = "getMultipleGroceryList"
     /\ request[c].isArray
     /\ Len(request[c].recipeIds) > 0
     /\ \A i \in 1..Len(request[c].recipeIds) : ~parseInt(request[c].recipeIds[i]).nan
     /\ Ended(c)) =>
       /\ response[c].success
       /\ Len(response[c].data.recipes) = Len(request[c].recipeIds)
       /\ \A i \in 1..Len(request[c].recipeIds) :
             LET id == parseInt(request[c].recipeIds[i]).value
             IN hasKey(request[c].servingsById, id) =>
                  response[c].data.recipes[i].servings = get(request[c].servingsById, id)

\* C20: once GET /grocery-list/:recipeId/by-category with a numeric
\* recipeId has ended without a lookup failure, the response is a
\* success whose data is the categorizedIngredients of the list that
\* generateGroceryList([recipeId], {servings}) builds from the same
\* answers.
C20_ByCategoryMatchesService ==
  \A c \in Calls :
    (/\ request[c].handler = "getGroceryListByCategory"
     /\ ~parseInt(request[c].recipeId).nan
     /\ Ended(c)) =>
       /\ response[c].success
       /\ response[c].data =
            runAlone(<<parseInt(request[c].recipeId).value>>,
                     [servings |-> IF PositiveNumeric(request[c].servings)
                                   THEN parseInt(request[c].servings).value ELSE 0,
                      excludeIngredients |-> <<>>],
                     answers[c]).categorizedIngredients

\* C21: once POST /grocery-list/check-availability with a non-empty
\* array of names has ended, the response is a success whose data holds
\* one record per name, in the order of the names, each with the name
\* and a boolean available.
C21_AvailabilityPerName ==
  \A c \in Calls :
    (/\ request[c].handler = "checkIngredientAvailability"
     /\ request[c].isArray
     /\ Len(request[c].recipeIds) > 0
     /\ Ended(c)) =>
       /\ response[c].success
       /\ Len(response[c].data) = Len(request[c].recipeIds)
       /\ \A i \in 1..Len(request[c].recipeIds) :
             /\ response[c].data[i].name = request[c].recipeIds[i]
             /\ response[c].data[i].available \in BOOLEAN

\* C22: the recipes of a returned list are, position by position, the
\* id, name and cookingTime of the recipe answered for that position of
\* the identifier sequence with servings options.servings when it is set
\* and the recipe's own servings otherwise, and summary.totalRecipes is
\* the length of the identifier sequence.
C22_RecipesSequence ==
  \A c \in Calls : Done(c) =>
    /\ Len(result[c].recipes) = Len(recipeIds[c])
    /\ \A k \in 1..Len(recipeIds[c]) :
          result[c].recipes[k] =
            [id |-> answers[c][k].id,
             name |-> answers[c][k].name,
             servings |-> IF options[c].servings # 0 THEN options[c].servings
                          ELSE answers[c][k].servings,
             cookingTime |-> answers[c][k].cookingTime]
    /\ result[c].summary.totalRecipes = Len(recipeIds[c])

\* a returned list for the same identifier twice, with a servings
\* override, whose two lookups answered different recipes
C22_Witness ==
  /\ Done("A")
  /\ Len(recipeIds["A"]) = 2
  /\ recipeIds["A"][1] = recipeIds["A"][2]
  /\ options["A"].servings # 0
  /\ result["A"].recipes[1].name # result["A"].recipes[2].name
  /\ result["A"].summary.totalRecipes = 2

\* C23: a call given one integer identifier runs on the one-element
\* sequence holding it, and what it returns is what the call given that
\* sequence with the same options builds from the same answers.
C23_SingleIsOneElement ==
  \A c \in Calls :
    (pc[c] # "idle" /\ argument[c] # NoArgument /\ ~argument[c].isArray) =>
      /\ recipeIds[c] = <<argument[c].value>>
      /\ Done(c) => result[c] = runAlone(<<argument[c].value>>, options[c], answers[c])
      /\ pc[c] = "failed" => failedAt[c] = 1

\* a returned list of a call given the integer 2 with a servings
\* override and an exclusion
C23_Witness ==
  /\ Done("A")
  /\ argument["A"] = IntegerArg(2)
  /\ options["A"].servings # 0
  /\ options["A"].excludeIngredients # <<>>
  /\ result["A"].summary.totalRecipes = 1
  /\ result["A"].recipes[1].id = 2

\* the price of a name, in hundredths: the entry of the table for the
\* lowercased name, 2.50 when it has none
PriceOf(name) ==
  IF \E i \in 1..Len(averagePrices) : averagePrices[i].key = toLowerCase(name)
  THEN averagePrices[CHOOSE i \in 1..Len(averagePrices) :
                        averagePrices[i].key = toLowerCase(name)].val
  ELSE 250

RECURSIVE SumOfPrices(_)
\* the sum of the prices of a set of names
SumOfPrices(names) ==
  IF names = {} THEN 0
  ELSE LET n == CHOOSE n \in names : TRUE
       IN PriceOf(n) + SumOfPrices(names \ {n})

Alphabet ==
  <<" ", "a", "b", "c", "d", "e", "f", "g", "h", "i", "j", "k", "l", "m",
    "n", "o", "p", "q", "r", "s", "t", "u", "v", "w", "x", "y", "z">>

PlaceInAlphabet(ch) == CHOOSE i \in 1..Len(Alphabet) : Alphabet[i] = toLowerChar(ch)

\* a comes strictly before b in lexical order when case is ignored
BeforeIgnoringCase(a, b) ==
  \/ Len(a) < Len(b) /\ \A i \in 1..Len(a) : PlaceInAlphabet(a[i]) = PlaceInAlphabet(b[i])
  \/ \E i \in 1..Len(a) :
        /\ i <= Len(b)
        /\ \A j \in 1..(i - 1) : PlaceInAlphabet(a[j]) = PlaceInAlphabet(b[j])
        /\ PlaceInAlphabet(a[i]) < PlaceInAlphabet(b[i])

\* C25: in every category list of a returned list no entry comes before
\* an earlier entry of the list in lexical order of the names with case
\* ignored.
C25_SortedWithinCategory ==
  \A c \in Calls : Done(c) =>
    \A i \in 1..Len(result[c].categorizedIngredients) :
      LET entries == result[c].categorizedIngredients[i].val
      IN \A j \in 1..Len(entries), k \in 1..Len(entries) :
            j < k => ~BeforeIgnoringCase(entries[k].name, entries[j].name)

\* a returned list whose dairy entries were inserted as cheese, butter,
\* Butter, two of them names that differ only in case
C25_Witness ==
  /\ Done("A")
  /\ \E i \in 1..Len(result["A"].categorizedIngredients) :
        /\ result["A"].categorizedIngredients[i].key = "dairy"
        /\ Len(result["A"].categorizedIngredients[i].val) = 3
        /\ result["A"].categorizedIngredients[i].val[3].name = cheese
  /\ \E j \in 1..Len(result["A"].ingredients) :
        /\ result["A"].ingredients[j].key = cheese
        /\ result["A"].ingredients[j + 1].key = butter

\* the base quantity of a name: the entry of the table for the lowercased
\* name, or {1, item, Check recipe for specific amount}
BaseEntry(name) ==
  IF \E i \in 1..Len(baseQuantities) : baseQuantities[i].key = toLowerCase(name)
  THEN baseQuantities[CHOOSE i \in 1..Len(baseQuantities) :
                         baseQuantities[i].key = toLowerCase(name)].val
  ELSE [amount |-> 1, unit |-> "item", notes |-> "Check recipe for specific amount"]

RECURSIVE InsertionOrder(_, _, _)
\* the names the first n answered recipes list, without the excluded
\* ones, each once, in the order of their first occurrence
InsertionOrder(as, n, excluded) ==
  IF n = 0 THEN <<>>
  ELSE LET before == InsertionOrder(as, n - 1, excluded)
           RECURSIVE within(_)
           within(k) ==
             IF k = 0 THEN before
             ELSE LET sofar == within(k - 1)
                      name == as[n].ingredients[k]
                  IN IF \/ arrayIncludes(excluded, toLowerCase(name))
                        \/ arrayIncludes(sofar, name)
                     THEN sofar ELSE Append(sofar, name)
       IN within(Len(as[n].ingredients))

Rearrangements(n) == {f \in [1..n -> 1..n] : \A i, j \in 1..n : f[i] = f[j] => i = j}

\* the list of the call on the identifiers rearranged by f, every
\* identifier answered as before
Rearranged(c, f) ==
  runAlone([i \in 1..Len(recipeIds[c]) |-> recipeIds[c][f[i]]], options[c],
           [i \in 1..Len(answers[c]) |-> answers[c][f[i]]])

\* what a rearrangement of the identifiers may not change
OrderFree(list) ==
  [keys |-> Keys(list.ingredients),
   categories |-> {<<list.ingredients[i].key, list.ingredients[i].val.category>> :
                     i \in 1..Len(list.ingredients)},
   contributors |-> {<<list.ingredients[i].key, Elements(list.ingredients[i].val.recipes)>> :
                       i \in 1..Len(list.ingredients)},
   totalIngredients |-> list.summary.totalIngredients,
   estimatedCost |-> list.summary.estimatedCost,
   estimatedTime |-> list.summary.estimatedTime]

\* C28: the list returned for the identifiers in any other order, with
\* the same options and the same answer per identifier, has the same
\* keys, the same category and the same set of contributing recipes per
\* key, and the same totalIngredients, estimatedCost and estimatedTime.
C28_PermutationInvariant ==
  \A c \in Calls : Done(c) =>
    \A f \in Rearrangements(Len(recipeIds[c])) :
      OrderFree(Rearranged(c, f)) = OrderFree(result[c])

\* a returned list of two recipes that the other order of the
\* identifiers builds with other quantities
C28_Witness ==
  /\ Done("A")
  /\ Len(recipeIds["A"]) = 2
  /\ recipeIds["A"][1] # recipeIds["A"][2]
  /\ options["A"].servings # 0
  /\ \E f \in Rearrangements(2) :
        /\ Rearranged("A", f).recipes # result["A"].recipes
        /\ \E i \in 1..Len(result["A"].ingredients) :
              LET name == result["A"].ingredients[i].key
              IN get(Rearranged("A", f).ingredients, name).quantity
                   # result["A"].ingredients[i].val.quantity

\* C29: an entry of a returned list whose name is a keyword of the
\* category table carries the category the table lists the keyword under.
C29_KeywordInOwnCategory ==
  \A c \in Calls : Done(c) =>
    \A e \in Values(result[c].ingredients) :
      \A i \in 1..Len(ingredientCategories) :
        arrayIncludes(ingredientCategories[i].items, e.name) =>
          e.category = ingredientCategories[i].category

\* what holds of a detect-ingredients request at every moment
DetectionInOrder(r) ==
  LET d == detection[r]
  IN /\ Len(d.responses) <= 1
     /\ Len(d.unlinks) <= 1
     /\ \A i \in 1..Len(d.unlinks) : d.unlinks[i] = d.imagePath /\ d.imagePath # NoPath
     /\ (d.pc = "finished" /\ d.imagePath = NoPath) =>
           /\ Len(d.responses) = 1 /\ d.responses[1].statusCode = 400
           /\ d.unlinks = <<>>
     /\ (d.pc = "finished" /\ d.imagePath # NoPath) =>
           /\ Len(d.responses) = 1 /\ d.responses[1].statusCode \in {200, 500}
           /\ d.responses[1].statusCode = 200 <=> d.responses[1].body.success
           /\ Len(d.unlinks) = 1

\* C30: a detect-ingredients request never has more than one response or
\* more than one deletion requested; without a file it is answered 400
\* and no deletion is requested; with a file, deletion of that file is
\* eventually requested and one response, 200 or 500, sent.
C30_FileDeletedOnce ==
  /\ [](\A r \in Uploads : DetectionInOrder(r))
  /\ \A r \in Uploads :
        (detection[r].pc = "extracting") ~>
          (/\ detection[r].pc = "finished"
           /\ Len(detection[r].unlinks) = 1
           /\ Len(detection[r].responses) = 1)

\* one request failed at the extraction and another was answered with
\* recipes, the files of both having been asked to be deleted
C30_Witness ==
  /\ detection[1].pc = "finished" /\ detection[1].responses[1].statusCode = 500
  /\ detection[2].pc = "finished" /\ detection[2].responses[1].statusCode = 200
  /\ detection[2].responses[1].body.recipes.searchedIngredients
       = << <<"e", "g", "g", "s">>, <<"k", "a", "l", "e">> >>
  /\ detection[1].unlinks = <<"uploads/img-1">>
  /\ detection[2].unlinks = <<"uploads/img-2">>
====
